---- MODULE Spec2Model ----
(***************************************************************************)
(* Model of main.py: the follow/unfollow reconciliation script.            *)
(*                                                                         *)
(* A CSV file is the sequence of its rows; a missing file and an empty     *)
(* file are both <<>> (every reader and writer of main.py treats them      *)
(* alike).  A row carries the columns the program looks at; hdr marks the  *)
(* row of column names that save_accounts_to_csv (or the operator) writes. *)
(*                                                                         *)
(* Specifications:                                                         *)
(*   Spec          one run of main()                                       *)
(*   SpecMutation  follow_or_unfollow under any caller                     *)
(*   SpecSelect    step 2 of main() up to construct_follow_list, with the  *)
(*                 quota as an input                                       *)
(*   SpecFetch     one call of fetch_relationships                         *)
(*   SpecFetchFair the same, the service answering in the end              *)
(*   SpecLimiter   calls of follow_or_unfollow through rate_limiter, with  *)
(*                 the clock                                               *)
(***************************************************************************)
EXTENDS Naturals, Integers, Sequences, FiniteSets, TLC

\* ------------------------------------------------------------ bounds
MaxRows     == 2    \* data rows a ledger may grow to in SpecMutation
MaxLedger   == 1    \* data rows of a ledger file before a run
MaxSeeds    == 2    \* handles in followback_accounts.csv
MaxPage     == 1    \* accounts a seed's follower listing returns
MaxQuota    == 1    \* largest max_follows drawn in SpecSelect
MaxPages    == 3    \* pages of a remote listing in SpecFetch
MaxPageLen  == 2    \* accounts on one page in SpecFetch
MaxTimeouts == 2    \* timeouts one fetch_relationships call meets
MaxClock    == 9    \* the clock stops here in SpecLimiter
MaxRecords  == 3    \* follow records the service holds for one DID in SpecMutation

\* ------------------------------------------------------------ constants
DefaultMaxFollows == 2000     \* max_follows
UnitsPerDay       == 10000    \* the clock ticks 0.0001 day
Interval          == 3        \* @rate_limiter(3)
TestingPages      == 2        \* testing and i >= 2

\* The identities.  The program compares handles with handles and DIDs with
\* DIDs, for equality only; two of each, with one account under its own
\* handle and under the other's (renamed, or a handle reused), give every
\* case of equal and different the rules below distinguish.
Handles  == {1, 2}
DIDs     == {1, 2}
Accounts == {[Handle |-> 1, DID |-> 1], [Handle |-> 2, DID |-> 2], [Handle |-> 1, DID |-> 2]}

VARIABLES
    accounts_i_follow,      \* global set of DIDs (line 25)
    my_followers,           \* global set of DIDs (line 24)
    added_by_API_csv,       \* added_by_API.csv
    accounts_i_follow_csv,  \* accounts_i_follow.csv
    removed_users_csv,      \* removed_users.csv
    do_not_remove_csv,      \* do_not_remove.csv
    manual_remove_csv,      \* manual_remove.csv
    now,                    \* the clock, in the unit of Add Date
    saturday,               \* datetime.now().weekday() = 5
    max_follows,            \* main's max_follows
    followback_accounts,    \* main's followback_accounts: the seed handles
    pc,                     \* where main() is
    seed,                   \* get_relationships_of_handle_list: the next seed
    prospects,              \* its data, then main's prospects
    new_accounts_to_follow, \* main's new_accounts_to_follow
    accounts_to_unfollow,   \* main's accounts_to_unfollow
    todo,                   \* modify_followers: the accounts still to attempt
    last_call,              \* the last follow_or_unfollow call and its result
    listing,                \* the remote listing: the length of each page
    testing,                \* fetch_relationships' testing
    cursor,                 \* fetch_relationships' cursor: the next page, 0 for none
    accounts,               \* fetch_relationships' accounts
    page_count,             \* fetch_relationships' i
    timeouts,               \* InvokeTimeoutErrors caught so far
    fetch_pc,               \* where fetch_relationships is
    clock,                  \* time.time(), in seconds
    last_called,            \* rate_limiter's last_called[0]
    wrapper_now,            \* wrapper's now
    wrapper_pc,             \* where wrapper and the function it wraps are
    call_modification,      \* the modification of the call in progress
    prev_remote,            \* the start of the remote call before the last, -1 for none
    last_remote,            \* the start of the last remote call, -1 for none
    remote_follows,         \* the service: follow records from the operator, by DID
    attempts,               \* modify_followers: the accounts attempted, with success
    newly_modified_accounts \* modify_followers' newly_modified_accounts

ledgerVars == <<added_by_API_csv, accounts_i_follow_csv, removed_users_csv>>
inputVars  == <<do_not_remove_csv, manual_remove_csv, now, saturday, max_follows,
                followback_accounts>>
mainVars   == <<pc, seed, prospects, new_accounts_to_follow, accounts_to_unfollow, todo>>

fetchVars  == <<listing, testing, cursor, accounts, page_count, timeouts, fetch_pc>>
limVars    == <<clock, last_called, wrapper_now, wrapper_pc, call_modification, prev_remote,
                last_remote>>

applyVars  == <<attempts, newly_modified_accounts>>

vars == <<accounts_i_follow, my_followers, ledgerVars, inputVars, mainVars, last_call,
          fetchVars, limVars, remote_follows, applyVars>>

\* ------------------------------------------------------------ CSV files
HeaderRow == [hdr |-> TRUE, Handle |-> 0, DID |-> 0, AddDate |-> 0]

DataRow(account, date) ==
    [hdr |-> FALSE, Handle |-> account.Handle, DID |-> account.DID, AddDate |-> date]

\* csv.DictReader: the first row of the file gives the keys, whatever it
\* holds; the rows after it are the records.  keyed says that the keys are
\* the column names ('Handle', 'DID', 'Add Date'), so that row['Handle']
\* finds a value; it raises KeyError otherwise.
DictReader(file) ==
    IF file = <<>>
    THEN [keyed |-> FALSE, rows |-> <<>>]
    ELSE [keyed |-> Head(file).hdr, rows |-> Tail(file)]

\* read_accounts_from_csv: the records, to be indexed by the caller.
read_accounts_from_csv(file) == DictReader(file)

\* A caller's row['...'] on a record of read_accounts_from_csv raises.
RaisesKeyError(reader) == reader.rows # <<>> /\ ~reader.keyed

\* read_handles_from_csv: the handles read before the first exception.
read_handles_from_csv(file) ==
    LET reader == DictReader(file)
    IN  IF reader.keyed
        THEN [i \in 1..Len(reader.rows) |-> reader.rows[i].Handle]
        ELSE <<>>

Range(s) == {s[i] : i \in 1..Len(s)}

BoundedSeq(S, n) == UNION {[1..k -> S] : k \in 0..n}

\* add_new_accounts_to_csv with one row: append unless the handle is read.
add_new_accounts_to_csv(file, row) ==
    IF row.Handle \notin Range(read_handles_from_csv(file))
    THEN Append(file, row)
    ELSE file

\* remove_accounts_from_csv with one handle; the file is rewritten only
\* when some record remains.  Raises when the records have no 'Handle'.
remove_accounts_from_csv(file, handle) ==
    LET existing  == read_accounts_from_csv(file)
        Keep(row) == row.Handle # handle
        remaining == SelectSeq(existing.rows, Keep)
    IN  IF remaining # <<>> THEN <<Head(file)>> \o remaining ELSE file

\* ------------------------------------------------------------ mutation
\* What is known of a call of follow_or_unfollow: its arguments, what it
\* returned, how many remote calls it issued (client.follow, client.unfollow)
\* and how many of its two ledger operations it came to.
Call(modification, account, success, remote_calls, ledger_ops) ==
    [modification |-> modification, account |-> account, success |-> success,
     remote_calls |-> remote_calls, ledger_ops |-> ledger_ops]

NoCall == Call("none", [Handle |-> 0, DID |-> 0], FALSE, 0, 0)

FailPoints == {"none", "remote1", "remote2", "write1", "write2"}

\* The service: client.follow(did) creates a follow record and returns its
\* URI; client.unfollow(URI) deletes the record the URI names.
NoRecords == [d \in DIDs |-> 0]

RecordsOf(follows) == [d \in DIDs |-> IF d \in follows THEN 1 ELSE 0]

CreateRecord(records, did) == [records EXCEPT ![did] = @ + 1]

DeleteRecord(records, did) == [records EXCEPT ![did] = @ - 1]

\* The FOLLOW branch with accounts_i_follow.add before client.follow.
Follow_AddFirst(account, fail) ==
    /\ accounts_i_follow' = accounts_i_follow \cup {account.DID}
    /\ IF fail = "none"
       THEN /\ remote_follows' = CreateRecord(remote_follows, account.DID)
            /\ added_by_API_csv' =
                   add_new_accounts_to_csv(added_by_API_csv, DataRow(account, now))
            /\ accounts_i_follow_csv' =
                   add_new_accounts_to_csv(accounts_i_follow_csv, DataRow(account, 0))
            /\ last_call' = Call("follow", account, TRUE, 1, 2)
       ELSE /\ UNCHANGED <<added_by_API_csv, accounts_i_follow_csv, remote_follows>>
            /\ last_call' = Call("follow", account, FALSE, 1, 0)

\* follow_or_unfollow, FOLLOW branch.  fail names the statement that raises.
Follow(account, fail) ==
    IF fail = "remote1"
    THEN /\ UNCHANGED <<accounts_i_follow, added_by_API_csv, accounts_i_follow_csv,
                        remote_follows>>
         /\ last_call' = Call("follow", account, FALSE, 1, 0)
    ELSE /\ remote_follows' = CreateRecord(remote_follows, account.DID)
         /\ accounts_i_follow' = accounts_i_follow \cup {account.DID}
         /\ IF fail = "write1"
            THEN /\ UNCHANGED <<added_by_API_csv, accounts_i_follow_csv>>
                 /\ last_call' = Call("follow", account, FALSE, 1, 1)
            ELSE /\ added_by_API_csv' =
                        add_new_accounts_to_csv(added_by_API_csv, DataRow(account, now))
                 /\ IF fail = "write2"
                    THEN /\ UNCHANGED accounts_i_follow_csv
                         /\ last_call' = Call("follow", account, FALSE, 1, 2)
                    ELSE /\ accounts_i_follow_csv' =
                               add_new_accounts_to_csv(accounts_i_follow_csv, DataRow(account, 0))
                         /\ last_call' = Call("follow", account, TRUE, 1, 2)

\* follow_or_unfollow, UNFOLLOW branch: client.follow for the URI, then
\* client.unfollow(URI), accounts_i_follow.remove and the two ledgers.
Unfollow(account, fail) ==
    IF fail = "remote1"
    THEN /\ UNCHANGED <<accounts_i_follow, accounts_i_follow_csv, removed_users_csv,
                        remote_follows>>
         /\ last_call' = Call("unfollow", account, FALSE, 1, 0)
    ELSE IF fail = "remote2"
    THEN /\ UNCHANGED <<accounts_i_follow, accounts_i_follow_csv, removed_users_csv>>
         /\ remote_follows' = CreateRecord(remote_follows, account.DID)
         /\ last_call' = Call("unfollow", account, FALSE, 2, 0)
    ELSE /\ remote_follows' =
                DeleteRecord(CreateRecord(remote_follows, account.DID), account.DID)
         /\ IF account.DID \notin accounts_i_follow
            THEN /\ UNCHANGED <<accounts_i_follow, accounts_i_follow_csv, removed_users_csv>>
                 /\ last_call' = Call("unfollow", account, FALSE, 2, 0)
            ELSE /\ accounts_i_follow' = accounts_i_follow \ {account.DID}
                 /\ IF fail = "write1"
                       \/ RaisesKeyError(read_accounts_from_csv(accounts_i_follow_csv))
                    THEN /\ UNCHANGED <<accounts_i_follow_csv, removed_users_csv>>
                         /\ last_call' = Call("unfollow", account, FALSE, 2, 1)
                    ELSE /\ accounts_i_follow_csv' =
                               remove_accounts_from_csv(accounts_i_follow_csv, account.Handle)
                         /\ IF fail = "write2"
                            THEN /\ UNCHANGED removed_users_csv
                                 /\ last_call' = Call("unfollow", account, FALSE, 2, 2)
                            ELSE /\ removed_users_csv' =
                                       add_new_accounts_to_csv(removed_users_csv,
                                                               DataRow(account, now))
                                 /\ last_call' = Call("unfollow", account, TRUE, 2, 2)

follow_or_unfollow(account, modification, fail) ==
    IF modification = "follow"
    THEN Follow(account, fail) /\ UNCHANGED removed_users_csv
    ELSE Unfollow(account, fail) /\ UNCHANGED added_by_API_csv

\* save_accounts_to_csv: a header row, then one row per account.
save_accounts_to_csv(list) ==
    <<HeaderRow>> \o [i \in 1..Len(list) |-> DataRow(list[i], 0)]

\* The ledgers the operator leaves before a run: none, or the column names.
FreshLedgers == {<<>>, <<HeaderRow>>}

\* The accounts a listing returns for the operator: each DID once.
Listings ==
    {s \in BoundedSeq(Accounts, Cardinality(DIDs)) :
        \A i, j \in 1..Len(s) : s[i].DID = s[j].DID => i = j}

SeqDIDs(s) == {s[i].DID : i \in 1..Len(s)}

\* The values of the variables a specification does not use.
IdleInputs ==
    /\ do_not_remove_csv = <<HeaderRow>>
    /\ manual_remove_csv = <<HeaderRow>>
    /\ now = 0
    /\ saturday = FALSE
    /\ max_follows = DefaultMaxFollows
    /\ followback_accounts = <<>>

IdleFetch ==
    /\ listing = <<0>>
    /\ testing = FALSE
    /\ cursor = 0
    /\ accounts = <<>>
    /\ page_count = 0
    /\ timeouts = 0
    /\ fetch_pc = "idle"

IdleLimiter ==
    /\ clock = 0
    /\ last_called = 0
    /\ wrapper_now = 0
    /\ wrapper_pc = "off"
    /\ call_modification = "none"
    /\ prev_remote = -1
    /\ last_remote = -1

IdleApply ==
    /\ attempts = <<>>
    /\ newly_modified_accounts = <<>>

IdleMain ==
    /\ pc = "idle"
    /\ seed = 1
    /\ prospects = <<>>
    /\ new_accounts_to_follow = <<>>
    /\ accounts_to_unfollow = <<>>
    /\ todo = <<>>

\* ------------------------------------------------------------ main()
AccountOf(row) == [Handle |-> row.Handle, DID |-> row.DID]

\* keep_for_x_days: 1 day, and 0.0001 day on Saturday.
keep_for_x_days(sat) == IF sat THEN 1 ELSE UnitsPerDay

\* The DIDs a record read of a ledger yields.
LedgerDIDs(file) ==
    LET reader == read_accounts_from_csv(file)
    IN  {reader.rows[i].DID : i \in 1..Len(reader.rows)}

\* The comprehension with <= for <: an entry exactly as old as the retention
\* is unfollowed too.
RetentionRule_AtLeast(dict, protected, follows, t, sat) ==
    LET Keep(account) ==
            /\ account.AddDate <= t - keep_for_x_days(sat)
            /\ account.DID \in follows
            /\ account.Handle \notin protected
    IN  SelectSeq(dict, Keep)

\* Step 1, the comprehension over added_by_API.csv (lines 425-431).
RetentionRule(dict, protected, follows, t, sat) ==
    LET Keep(account) ==
            /\ account.AddDate < t - keep_for_x_days(sat)
            /\ account.DID \in follows
            /\ account.Handle \notin protected
    IN  SelectSeq(dict, Keep)

\* The comprehension without its do_not_remove_list test.
ManualRule_Unprotected(dict, protected, follows) ==
    LET Keep(account) == account.DID \in follows
    IN  SelectSeq(dict, Keep)

\* Step 1, the comprehension over manual_remove.csv (lines 433-437).
ManualRule(dict, protected, follows) ==
    LET Keep(account) ==
            /\ account.DID \in follows
            /\ account.Handle \notin protected
    IN  SelectSeq(dict, Keep)

\* do_not_follow without already_added.
DoNotFollow_NoLedger(follows, followers, ledger) == follows \cup followers

\* construct_follow_list's do_not_follow.
DoNotFollow(follows, followers, ledger) ==
    (follows \cup followers) \cup LedgerDIDs(ledger)

\* construct_follow_list's loop from prospects[k] on, with accounts_to_follow
\* and i as they stand; the quota is tested after the append.
RECURSIVE ConstructLoop(_, _, _, _, _, _)
ConstructLoop(list, k, do_not_follow, quota, accounts_to_follow, i) ==
    IF k > Len(list)
    THEN accounts_to_follow
    ELSE LET take == list[k].DID \notin do_not_follow
             acc  == IF take THEN Append(accounts_to_follow, list[k])
                             ELSE accounts_to_follow
             n    == IF take THEN i + 1 ELSE i
         IN  IF n >= quota
             THEN acc
             ELSE ConstructLoop(list, k + 1, do_not_follow, quota, acc, n)

construct_follow_list(list, quota, follows, followers, ledger) ==
    ConstructLoop(list, 1, DoNotFollow(follows, followers, ledger), quota, <<>>, 0)

\* An exception of login or init() swallowed: main goes on to step 1.
OnInitError_Continue == "step1"

\* An exception of client.login or init() reaches main's except clause
\* (init re-raises, lines 102-104): handle_error, and main returns.
OnInitError == "aborted"

\* client.login: it raises, or main goes on to init().
Login ==
    /\ pc = "start"
    /\ \E ok \in BOOLEAN : pc' = IF ok THEN "init" ELSE OnInitError
    /\ UNCHANGED <<accounts_i_follow, my_followers, ledgerVars, inputVars, seed,
                   prospects, new_accounts_to_follow, accounts_to_unfollow, todo,
                   last_call>>
    /\ UNCHANGED <<fetchVars, limVars, remote_follows, applyVars>>

\* init(): the two listings of the operator's own account, the snapshot
\* file, and the read of added_by_API.csv for followed_manually.csv.
InitSnapshot ==
    /\ pc = "init"
    /\ \E followers \in SUBSET DIDs, follows \in Listings,
          fail \in {"none", "followers", "follows"} :
          IF fail = "followers"
          THEN /\ pc' = OnInitError
               /\ UNCHANGED <<my_followers, accounts_i_follow, accounts_i_follow_csv,
                              remote_follows>>
          ELSE /\ my_followers' = followers
               /\ IF fail = "follows"
                  THEN /\ pc' = OnInitError
                       /\ UNCHANGED <<accounts_i_follow, accounts_i_follow_csv,
                                      remote_follows>>
                  ELSE /\ accounts_i_follow' = SeqDIDs(follows)
                       /\ remote_follows' = RecordsOf(SeqDIDs(follows))
                       /\ accounts_i_follow_csv' = save_accounts_to_csv(follows)
                       /\ pc' = IF RaisesKeyError(read_accounts_from_csv(added_by_API_csv))
                                THEN OnInitError ELSE "step1"
    /\ UNCHANGED <<added_by_API_csv, removed_users_csv, inputVars, seed, prospects,
                   new_accounts_to_follow, accounts_to_unfollow, todo, last_call>>
    /\ UNCHANGED <<fetchVars, limVars, applyVars>>

\* Step 1 reading the accounts to unfollow from accounts_i_follow.csv, as
\* unfollow_accounts_not_following_me does.
account_dict_follows == read_accounts_from_csv(accounts_i_follow_csv)

\* Step 1's three reads.
account_dict       == read_accounts_from_csv(added_by_API_csv)
do_not_remove_list == Range(read_handles_from_csv(do_not_remove_csv))
manual_remove_list == read_accounts_from_csv(manual_remove_csv)

\* Step 1: accounts_to_unfollow.
Step1 ==
    /\ pc = "step1"
    /\     IF RaisesKeyError(account_dict) \/ RaisesKeyError(manual_remove_list)
           THEN pc' = "aborted" /\ UNCHANGED accounts_to_unfollow
           ELSE /\ accounts_to_unfollow' =
                      RetentionRule(account_dict.rows, do_not_remove_list,
                                    accounts_i_follow, now, saturday)
                      \o ManualRule(manual_remove_list.rows, do_not_remove_list,
                                    accounts_i_follow)
                /\ pc' = "step2"
    /\ UNCHANGED <<accounts_i_follow, my_followers, ledgerVars, inputVars, seed,
                   prospects, new_accounts_to_follow, todo, last_call>>
    /\ UNCHANGED <<fetchVars, limVars, remote_follows, applyVars>>

\* Step 2 is skipped on Saturday.
Step2 ==
    /\ pc = "step2"
    /\ IF saturday
       THEN pc' = "unfollowing" /\ todo' = accounts_to_unfollow
       ELSE pc' = "fetching" /\ todo' = todo
    /\ seed' = 1
    /\ prospects' = <<>>
    /\ UNCHANGED <<accounts_i_follow, my_followers, ledgerVars, inputVars,
                   new_accounts_to_follow, accounts_to_unfollow, last_call>>
    /\ attempts' = <<>>
    /\ newly_modified_accounts' = <<>>
    /\ UNCHANGED <<fetchVars, limVars, remote_follows>>

\* get_relationships_of_handle_list, one seed: the listing fetch_relationships
\* returns is appended to data, or the fetch raises and main is left.
FetchSeed ==
    /\ pc = "fetching"
    /\ seed <= Len(followback_accounts)
    /\ \/ \E following \in BoundedSeq(Accounts, MaxPage) :
             /\ prospects' = prospects \o following
             /\ seed' = seed + 1
             /\ pc' = pc
       \/ /\ pc' = "aborted"
          /\ UNCHANGED <<seed, prospects>>
    /\ UNCHANGED <<accounts_i_follow, my_followers, ledgerVars, inputVars,
                   new_accounts_to_follow, accounts_to_unfollow, todo, last_call>>
    /\ UNCHANGED <<fetchVars, limVars, remote_follows, applyVars>>

\* new_accounts_to_follow = construct_follow_list(prospects).
Construct ==
    /\ pc = "fetching"
    /\ seed > Len(followback_accounts)
    /\ IF RaisesKeyError(read_accounts_from_csv(added_by_API_csv))
       THEN pc' = "aborted" /\ UNCHANGED <<new_accounts_to_follow, todo>>
       ELSE LET list == construct_follow_list(prospects, max_follows, accounts_i_follow,
                                              my_followers, added_by_API_csv)
            IN  /\ new_accounts_to_follow' = list
                /\ todo' = list
                /\ pc' = "following"
    /\ UNCHANGED <<accounts_i_follow, my_followers, ledgerVars, inputVars, seed,
                   prospects, accounts_to_unfollow, last_call>>
    /\ attempts' = <<>>
    /\ newly_modified_accounts' = <<>>
    /\ UNCHANGED <<fetchVars, limVars, remote_follows>>

\* The loop of modify_followers given up at the first failure.
RestAfter_StopOnFailure(list, success) == IF success THEN Tail(list) ELSE <<>>

\* modify_followers' for loop (lines 233-236): the accounts still to attempt
\* after one attempt, whatever its result.
RestAfter(list, success) == Tail(list)

\* modify_followers(new_accounts_to_follow, FOLLOW): the next account.
FollowNext ==
    /\ pc = "following"
    /\ todo # <<>>
    /\ \E fail \in FailPoints : follow_or_unfollow(AccountOf(Head(todo)), "follow", fail)
    /\ todo' = RestAfter(todo, last_call'.success)
    /\ UNCHANGED <<my_followers, inputVars, pc, seed, prospects,
                   new_accounts_to_follow, accounts_to_unfollow>>
    /\ attempts' = Append(attempts, [account |-> Head(todo), success |-> last_call'.success])
    /\ newly_modified_accounts' =
          IF last_call'.success THEN Append(newly_modified_accounts, Head(todo))
                                ELSE newly_modified_accounts
    /\ UNCHANGED <<fetchVars, limVars>>

\* modify_followers(accounts_to_unfollow, UNFOLLOW) begins.
FollowDone ==
    /\ pc = "following"
    /\ todo = <<>>
    /\ pc' = "unfollowing"
    /\ todo' = accounts_to_unfollow
    /\ UNCHANGED <<accounts_i_follow, my_followers, ledgerVars, inputVars, seed,
                   prospects, new_accounts_to_follow, accounts_to_unfollow, last_call>>
    /\ attempts' = <<>>
    /\ newly_modified_accounts' = <<>>
    /\ UNCHANGED <<fetchVars, limVars, remote_follows>>

UnfollowNext ==
    /\ pc = "unfollowing"
    /\ todo # <<>>
    /\ \E fail \in FailPoints : follow_or_unfollow(AccountOf(Head(todo)), "unfollow", fail)
    /\ todo' = RestAfter(todo, last_call'.success)
    /\ UNCHANGED <<my_followers, inputVars, pc, seed, prospects,
                   new_accounts_to_follow, accounts_to_unfollow>>
    /\ attempts' = Append(attempts, [account |-> Head(todo), success |-> last_call'.success])
    /\ newly_modified_accounts' =
          IF last_call'.success THEN Append(newly_modified_accounts, Head(todo))
                                ELSE newly_modified_accounts
    /\ UNCHANGED <<fetchVars, limVars>>

UnfollowDone ==
    /\ pc = "unfollowing"
    /\ todo = <<>>
    /\ pc' = "done"
    /\ UNCHANGED <<accounts_i_follow, my_followers, ledgerVars, inputVars, seed,
                   prospects, new_accounts_to_follow, accounts_to_unfollow, todo,
                   last_call>>
    /\ UNCHANGED <<fetchVars, limVars, remote_follows, applyVars>>

\* ------------------------------------------------------------ Spec
\* The files a run finds.  added_by_API.csv is written by appends only: it
\* has its column names when the operator created it with them, and none when
\* an earlier run's first append created it.
DistinctHandles(rows) == \A i, j \in 1..Len(rows) : rows[i].Handle = rows[j].Handle => i = j

PriorLedgers(ages, t) ==
    LET rows == {DataRow(a, t - g) : a \in Accounts, g \in ages}
    IN  {<<HeaderRow>> \o r : r \in {q \in BoundedSeq(rows, MaxLedger) : DistinctHandles(q)}}
            \cup BoundedSeq(rows, MaxLedger)

\* manual_remove.csv and do_not_remove.csv are the operator's.
ManualRemoveFiles ==
    {<<HeaderRow>> \o r : r \in BoundedSeq({DataRow(a, 0) : a \in Accounts}, MaxLedger)}

DoNotRemoveFiles ==
    {<<HeaderRow>> \o r :
        r \in BoundedSeq({DataRow([Handle |-> h, DID |-> 0], 0) : h \in Handles}, MaxLedger)}

SeedLists == {[i \in 1..n |-> i] : n \in 0..MaxSeeds}

Init ==
    /\ accounts_i_follow = {}
    /\ my_followers = {}
    /\ accounts_i_follow_csv = <<>>
    /\ removed_users_csv = <<>>
    /\ saturday \in BOOLEAN
    /\ now = 2 * UnitsPerDay
    /\ added_by_API_csv \in
          PriorLedgers({keep_for_x_days(saturday) + d : d \in {-1, 0, 1}}, now)
    /\ do_not_remove_csv \in DoNotRemoveFiles
    /\ manual_remove_csv \in ManualRemoveFiles
    /\ max_follows = DefaultMaxFollows
    /\ followback_accounts \in SeedLists
    /\ pc = "start"
    /\ seed = 1
    /\ prospects = <<>>
    /\ new_accounts_to_follow = <<>>
    /\ accounts_to_unfollow = <<>>
    /\ todo = <<>>
    /\ last_call = NoCall
    /\ IdleFetch
    /\ IdleLimiter
    /\ IdleApply
    /\ remote_follows = RecordsOf(accounts_i_follow)

Next ==
    \/ Login
    \/ InitSnapshot
    \/ Step1
    \/ Step2
    \/ FetchSeed
    \/ Construct
    \/ FollowNext
    \/ FollowDone
    \/ UnfollowNext
    \/ UnfollowDone

Spec == Init /\ [][Next]_vars

\* ------------------------------------------------------------ SpecSelect
\* Step 2 from the state init() and step 1 leave, with max_follows drawn.
\* accounts_i_follow.csv is not read in step 2: the listings drawn here are
\* those in the order of the DIDs.
InitSelect ==
    /\ \E follows \in {l \in Listings : \A i, j \in 1..Len(l) : i < j => l[i].DID < l[j].DID} :
          /\ accounts_i_follow = SeqDIDs(follows)
          /\ accounts_i_follow_csv = save_accounts_to_csv(follows)
    /\ my_followers \in SUBSET DIDs
    /\ removed_users_csv = <<>>
    /\ saturday = FALSE
    /\ now = 2 * UnitsPerDay
    /\ added_by_API_csv \in
          {l \in PriorLedgers({UnitsPerDay}, now) :
              ~RaisesKeyError(read_accounts_from_csv(l))}
    /\ do_not_remove_csv = <<HeaderRow>>
    /\ manual_remove_csv = <<HeaderRow>>
    /\ max_follows \in 0..MaxQuota
    /\ followback_accounts \in SeedLists
    /\ pc = "fetching"
    /\ seed = 1
    /\ prospects = <<>>
    /\ new_accounts_to_follow = <<>>
    /\ accounts_to_unfollow = <<>>
    /\ todo = <<>>
    /\ last_call = NoCall
    /\ IdleFetch
    /\ IdleLimiter
    /\ IdleApply
    /\ remote_follows = RecordsOf(accounts_i_follow)

NextSelect == FetchSeed \/ Construct

SpecSelect == InitSelect /\ [][NextSelect]_vars

\* ------------------------------------------------------------ SpecMutation
\* The mutation layer on its own: follow_or_unfollow called with any account,
\* either modification and any outcome of its remote calls and file writes.

\* The rows of a file that are not column names.
NumDataRows(file) == Cardinality({i \in 1..Len(file) : ~file[i].hdr})

InitMutation ==
    /\ \E follows \in Listings :
          /\ accounts_i_follow = SeqDIDs(follows)
          /\ accounts_i_follow_csv = save_accounts_to_csv(follows)
    /\ my_followers = {}
    /\ added_by_API_csv \in FreshLedgers
    /\ removed_users_csv \in FreshLedgers
    /\ IdleInputs
    /\ IdleMain
    /\ last_call = NoCall
    /\ IdleFetch
    /\ IdleLimiter
    /\ IdleApply
    /\ remote_follows = RecordsOf(accounts_i_follow)

Mutate ==
    \E account \in Accounts, modification \in {"follow", "unfollow"}, fail \in FailPoints :
        /\ NumDataRows(added_by_API_csv) < MaxRows
        /\ NumDataRows(removed_users_csv) < MaxRows
        /\ \A d \in DIDs : remote_follows[d] < MaxRecords
        /\ follow_or_unfollow(account, modification, fail)
        /\ UNCHANGED <<my_followers, inputVars, mainVars>>
    /\ UNCHANGED <<fetchVars, limVars, applyVars>>

NextMutation == Mutate

SpecMutation == InitMutation /\ [][NextMutation]_vars

\* C1: after follow_or_unfollow(a, FOLLOW) reports success, a.DID is in
\* accounts_i_follow and a.Handle is returned by a handle read of
\* added_by_API.csv, whatever the ledger held before (nothing included).
C1_FollowRecorded ==
    (last_call.modification = "follow" /\ last_call.success) =>
        /\ last_call.account.DID \in accounts_i_follow
        /\ last_call.account.Handle \in Range(read_handles_from_csv(added_by_API_csv))

\* C2: after follow_or_unfollow(a, UNFOLLOW) reports success, a.DID is not in
\* accounts_i_follow and a.Handle is returned by a handle read of
\* removed_users.csv, whatever that ledger held before (nothing included).
C2_UnfollowRecorded ==
    (last_call.modification = "unfollow" /\ last_call.success) =>
        /\ last_call.account.DID \notin accounts_i_follow
        /\ last_call.account.Handle \in Range(read_handles_from_csv(removed_users_csv))

\* ------------------------------------------------------------ SpecFetch
\* The remote listing holds the accounts 1, 2, ... in pages; listing[j] is
\* the length of page j.  The cursor a response carries names the next page
\* and is empty (0) on the last one; the first request carries None (0).
RECURSIVE Offset(_, _)
Offset(pages, j) == IF j <= 1 THEN 0 ELSE Offset(pages, j - 1) + pages[j - 1]

Total(pages) == Offset(pages, Len(pages) + 1)

Page(pages, j) == [n \in 1..pages[j] |-> Offset(pages, j) + n]

RequestedPage(c) == IF c = 0 THEN 1 ELSE c

ResponseCursor(pages, j) == IF j < Len(pages) THEN j + 1 ELSE 0

\* The loop leaving after two pages whether testing or not.
LoopExit_AlwaysCapped(next_cursor, test, i) ==
    next_cursor = 0 \/ i >= TestingPages

\* The two breaks of the loop (lines 157-161).
LoopExit(next_cursor, test, i) ==
    next_cursor = 0 \/ (test /\ i >= TestingPages)

\* A page is answered: accounts.extend, i += 1, cursor = response.cursor.
FetchPage ==
    /\ fetch_pc = "loop"
    /\ LET j == RequestedPage(cursor)
       IN  /\ accounts' = accounts \o Page(listing, j)
           /\ page_count' = page_count + 1
           /\ cursor' = ResponseCursor(listing, j)
           /\ fetch_pc' = IF LoopExit(ResponseCursor(listing, j), testing, page_count + 1)
                          THEN "returned" ELSE "loop"
    /\ UNCHANGED <<listing, testing, timeouts>>
    /\ UNCHANGED <<accounts_i_follow, my_followers, ledgerVars, inputVars, mainVars,
                   last_call, limVars, remote_follows, applyVars>>

\* The retry starting over from the first page.
RetryCursor_FirstPage(c) == 0

\* The cursor of the request after a timeout: the except clause assigns
\* nothing (lines 163-165).
RetryCursor(c) == c

\* The request raises InvokeTimeoutError: continue.
FetchTimeout ==
    /\ fetch_pc = "loop"
    /\ timeouts < MaxTimeouts
    /\ timeouts' = timeouts + 1
    /\ cursor' = RetryCursor(cursor)
    /\ UNCHANGED <<listing, testing, accounts, page_count, fetch_pc>>
    /\ UNCHANGED <<accounts_i_follow, my_followers, ledgerVars, inputVars, mainVars,
                   last_call, limVars, remote_follows, applyVars>>

\* The request raises anything else: raise.
FetchRaise ==
    /\ fetch_pc = "loop"
    /\ fetch_pc' = "raised"
    /\ UNCHANGED <<listing, testing, cursor, accounts, page_count, timeouts>>
    /\ UNCHANGED <<accounts_i_follow, my_followers, ledgerVars, inputVars, mainVars,
                   last_call, limVars, remote_follows, applyVars>>

InitFetch ==
    /\ listing \in UNION {[1..k -> 0..MaxPageLen] : k \in 1..MaxPages}
    /\ testing \in BOOLEAN
    /\ cursor = 0
    /\ accounts = <<>>
    /\ page_count = 0
    /\ timeouts = 0
    /\ fetch_pc = "loop"
    /\ accounts_i_follow = {}
    /\ my_followers = {}
    /\ added_by_API_csv = <<>>
    /\ accounts_i_follow_csv = <<>>
    /\ removed_users_csv = <<>>
    /\ IdleInputs
    /\ IdleMain
    /\ IdleLimiter
    /\ last_call = NoCall
    /\ IdleApply
    /\ remote_follows = NoRecords

NextFetch == FetchPage \/ FetchTimeout \/ FetchRaise

SpecFetch == InitFetch /\ [][NextFetch]_vars

\* The service answers: a request that can be answered is not refused for
\* ever.  The loop itself never waits (while True, lines 144-165).
SpecFetchFair == SpecFetch /\ WF_vars(FetchPage)

\* C18: a timeout leaves the cursor and the accumulated accounts as they
\* were, so that the next request is the same one; and with finitely many
\* timeouts the fetch ends: it raises, or it returns, with testing off,
\* every account of the listing.
C18_TimeoutRetries ==
    /\ [][timeouts' # timeouts =>
              (cursor' = cursor /\ accounts' = accounts /\ page_count' = page_count)]_vars
    /\ <>(\/ fetch_pc = "raised"
          \/ /\ fetch_pc = "returned"
             /\ ~testing => accounts = [n \in 1..Total(listing) |-> n])

\* A fetch of several pages met every timeout it could and returned.
C18_Witness ==
    /\ fetch_pc = "returned"
    /\ timeouts = MaxTimeouts
    /\ Len(listing) >= 2
    /\ page_count >= 2
    /\ accounts # <<>>

\* C9: with testing off, fetch_relationships returns the N accounts of the
\* listing, each once and none left out.
C9_FetchComplete ==
    (fetch_pc = "returned" /\ ~testing) =>
        /\ Len(accounts) = Total(listing)
        /\ \A n \in 1..Total(listing) :
              Cardinality({i \in 1..Len(accounts) : accounts[i] = n}) = 1

\* A fetch over three pages, one of them retried after a timeout, returned.
C9_Witness ==
    /\ fetch_pc = "returned"
    /\ ~testing
    /\ Len(listing) >= 3
    /\ Total(listing) >= 3
    /\ timeouts > 0

\* ------------------------------------------------------------ SpecLimiter
\* rate_limiter(3) around follow_or_unfollow.  time.time() is far above the
\* interval when the program starts, so the first call never sleeps.
Tick ==
    /\ clock < MaxClock
    /\ clock' = clock + 1
    /\ UNCHANGED <<last_called, wrapper_now, wrapper_pc, call_modification, prev_remote,
                   last_remote>>
    /\ UNCHANGED <<accounts_i_follow, my_followers, ledgerVars, inputVars, mainVars,
                   last_call, fetchVars, remote_follows, applyVars>>

\* wrapper is entered: now = time.time().
WrapperCall ==
    /\ wrapper_pc = "idle"
    /\ \E m \in {"follow", "unfollow"} : call_modification' = m
    /\ wrapper_now' = clock
    /\ wrapper_pc' = "sleep"
    /\ UNCHANGED <<clock, last_called, prev_remote, last_remote>>
    /\ UNCHANGED <<accounts_i_follow, my_followers, ledgerVars, inputVars, mainVars,
                   last_call, fetchVars, remote_follows, applyVars>>

\* The time time.sleep is asked for (lines 76-78).
SleepFor(t, last) == IF t - last < Interval THEN Interval - (t - last) ELSE 0

\* if elapsed < interval: time.sleep(interval - elapsed).
WrapperSleep ==
    /\ wrapper_pc = "sleep"
    /\ clock + SleepFor(wrapper_now, last_called) <= MaxClock
    /\ clock' = clock + SleepFor(wrapper_now, last_called)
    /\ wrapper_pc' = "stamp"
    /\ UNCHANGED <<last_called, wrapper_now, call_modification, prev_remote, last_remote>>
    /\ UNCHANGED <<accounts_i_follow, my_followers, ledgerVars, inputVars, mainVars,
                   last_call, fetchVars, remote_follows, applyVars>>

\* last_called[0] = time.time(), and func is entered.
WrapperStamp ==
    /\ wrapper_pc = "stamp"
    /\ last_called' = clock
    /\ wrapper_pc' = "remote1"
    /\ UNCHANGED <<clock, wrapper_now, call_modification, prev_remote, last_remote>>
    /\ UNCHANGED <<accounts_i_follow, my_followers, ledgerVars, inputVars, mainVars,
                   last_call, fetchVars, remote_follows, applyVars>>

\* client.follow, the first remote call of either branch; the UNFOLLOW
\* branch goes on to client.unfollow when it succeeded.
Remote1 ==
    /\ wrapper_pc = "remote1"
    /\ prev_remote' = last_remote
    /\ last_remote' = clock
    /\ \E ok \in BOOLEAN :
          wrapper_pc' = IF call_modification = "unfollow" /\ ok THEN "remote2" ELSE "idle"
    /\ UNCHANGED <<clock, last_called, wrapper_now, call_modification>>
    /\ UNCHANGED <<accounts_i_follow, my_followers, ledgerVars, inputVars, mainVars,
                   last_call, fetchVars, remote_follows, applyVars>>

\* client.unfollow(URI).
Remote2 ==
    /\ wrapper_pc = "remote2"
    /\ prev_remote' = last_remote
    /\ last_remote' = clock
    /\ wrapper_pc' = "idle"
    /\ UNCHANGED <<clock, last_called, wrapper_now, call_modification>>
    /\ UNCHANGED <<accounts_i_follow, my_followers, ledgerVars, inputVars, mainVars,
                   last_call, fetchVars, remote_follows, applyVars>>

InitLimiter ==
    /\ clock = Interval
    /\ last_called = 0
    /\ wrapper_now = 0
    /\ wrapper_pc = "idle"
    /\ call_modification = "none"
    /\ prev_remote = -1
    /\ last_remote = -1
    /\ accounts_i_follow = {}
    /\ my_followers = {}
    /\ added_by_API_csv = <<>>
    /\ accounts_i_follow_csv = <<>>
    /\ removed_users_csv = <<>>
    /\ IdleInputs
    /\ IdleMain
    /\ IdleFetch
    /\ last_call = NoCall
    /\ IdleApply
    /\ remote_follows = NoRecords

NextLimiter == Tick \/ WrapperCall \/ WrapperSleep \/ WrapperStamp \/ Remote1 \/ Remote2

SpecLimiter == InitLimiter /\ [][NextLimiter]_vars

\* C10: of any two consecutive remote mutation calls, the second starts at
\* least the interval after the first started.
C10_RemoteCallsSpaced ==
    (prev_remote >= 0 /\ last_remote >= 0) => last_remote - prev_remote >= Interval

\* What the decorator does keep apart: two consecutive entries of the
\* function it wraps.
WrappedCallsSpaced ==
    [][last_called' # last_called => last_called' - last_called >= Interval]_vars

\* ------------------------------------------------------------ claims, step 2
\* C3: the follow list construct_follow_list builds is never longer than the
\* quota, the quota 0 included.
C3_QuotaRespected ==
    pc = "following" => Len(new_accounts_to_follow) <= max_follows

Entries == read_accounts_from_csv(added_by_API_csv).rows

Listed(e) == \E i \in 1..Len(accounts_to_unfollow) : accounts_to_unfollow[i] = e

Age(e) == now - e.AddDate

C6_DoNotRemoveOverrides ==
    /\ \A i \in 1..Len(accounts_to_unfollow) :
          accounts_to_unfollow[i].Handle \notin do_not_remove_list
    /\ pc = "unfollowing" =>
          \A i \in 1..Len(todo) : todo[i].Handle \notin do_not_remove_list
    /\ last_call.modification = "unfollow" =>
          last_call.account.Handle \notin do_not_remove_list

\* A run came to its end with followed accounts under a protected handle
\* that qualified by retention and by manual_remove.csv.
C6_Witness ==
    /\ pc = "done"
    /\ \E k \in 1..Len(Entries) :
          /\ Entries[k].Handle \in do_not_remove_list
          /\ Age(Entries[k]) > keep_for_x_days(saturday)
          /\ Entries[k].DID \in accounts_i_follow
    /\ \E k \in 1..Len(manual_remove_list.rows) :
          /\ manual_remove_list.rows[k].Handle \in do_not_remove_list
          /\ manual_remove_list.rows[k].DID \in accounts_i_follow

ManualAccounts == {AccountOf(manual_remove_list.rows[k]) : k \in 1..Len(manual_remove_list.rows)}

\* C7: every account handed to the UNFOLLOW mutation has its DID in
\* added_by_API.csv or is listed in manual_remove.csv.
C7_OnlyEngineOrManual ==
    /\ pc = "unfollowing" =>
          \A i \in 1..Len(todo) :
              \/ todo[i].DID \in LedgerDIDs(added_by_API_csv)
              \/ AccountOf(todo[i]) \in ManualAccounts
    /\ last_call.modification = "unfollow" =>
          \/ last_call.account.DID \in LedgerDIDs(added_by_API_csv)
          \/ last_call.account \in ManualAccounts

\* An unfollow was attempted on an account the operator followed by hand and
\* listed for removal; another followed account is in neither file and waits
\* for nothing.
C7_Witness ==
    /\ pc = "unfollowing"
    /\ last_call.modification = "unfollow"
    /\ last_call.account.DID \notin LedgerDIDs(added_by_API_csv)
    /\ \E d \in accounts_i_follow :
          /\ d \notin LedgerDIDs(added_by_API_csv)
          /\ \A a \in ManualAccounts : a.DID # d

\* C8: whenever an unfollow is about to be attempted, the account's DID is in
\* accounts_i_follow.
C8_UnfollowOnlyFollowed ==
    (pc = "unfollowing" /\ todo # <<>>) => Head(todo).DID \in accounts_i_follow

\* ------------------------------------------------------------ claims, the run
\* C11: when login or a snapshot fetch of init() fails, the run ends with no
\* remote follow or unfollow call issued and no row added to added_by_API.csv
\* or removed_users.csv.  A run that left init() before the snapshot file was
\* written has stopped and has made no call; and a ledger changes only in a
\* step that issues a remote call.
C11_InitFailureStopsRun ==
    /\ []((pc \notin {"start", "init"} /\ accounts_i_follow_csv = <<>>) =>
            /\ pc = "aborted"
            /\ last_call = NoCall
            /\ remote_follows = NoRecords
            /\ removed_users_csv = <<>>)
    /\ [][(added_by_API_csv' # added_by_API_csv \/ removed_users_csv' # removed_users_csv)
              => last_call'.remote_calls > 0]_vars

\* The followers were listed, the fetch of the follows failed, and the run
\* ended with rows in added_by_API.csv past their retention.
C11_Witness ==
    /\ pc = "aborted"
    /\ accounts_i_follow_csv = <<>>
    /\ my_followers # {}
    /\ NumDataRows(added_by_API_csv) > 0
    /\ manual_remove_csv # <<HeaderRow>>
    /\ followback_accounts # <<>>

\* ------------------------------------------------------------ claims, the ledgers
\* The rows of a file that are not the column names, as written.
DataRows(file) == LET IsData(row) == ~row.hdr IN SelectSeq(file, IsData)

\* C12: after remove_accounts_from_csv(ledger, {h}) has returned, the records
\* of the ledger are those it held before whose handle is not h, the case
\* where every record has handle h included.  follow_or_unfollow calls it on
\* accounts_i_follow.csv as its first ledger operation of an unfollow.
C12_RemoveExact ==
    [][(last_call'.modification = "unfollow" /\ last_call'.ledger_ops = 2) =>
          LET Other(row) == row.Handle # last_call'.account.Handle
          IN  read_accounts_from_csv(accounts_i_follow_csv').rows =
                  SelectSeq(read_accounts_from_csv(accounts_i_follow_csv).rows, Other)]_vars

\* C13: add_new_accounts_to_csv never stores a handle twice: in a ledger
\* that began missing, empty or with its column names only, no handle is in
\* more than one row, whatever was appended.
C13_NoHandleTwice ==
    /\ DistinctHandles(DataRows(added_by_API_csv))
    /\ DistinctHandles(DataRows(removed_users_csv))

\* ------------------------------------------------------------ claims, modify_followers
AttemptedAccounts == [i \in 1..Len(attempts) |-> attempts[i].account]

Succeeded == LET Ok(a) == a.success
                 ok    == SelectSeq(attempts, Ok)
             IN  [i \in 1..Len(ok) |-> ok[i].account]

\* C14: modify_followers attempts the accounts of its input in input order,
\* each as often as it is listed, failures or not, and returns those whose
\* attempt reported success, in that order.
C14_EveryAccountAttempted ==
    /\ pc = "following" => AttemptedAccounts \o todo = new_accounts_to_follow
    /\ pc = "unfollowing" => AttemptedAccounts \o todo = accounts_to_unfollow
    /\ pc = "done" => AttemptedAccounts = accounts_to_unfollow
    /\ pc \in {"following", "unfollowing", "done"} => newly_modified_accounts = Succeeded

\* The unfollow pass came to its end: its first attempt failed, its second
\* succeeded, and one account was returned.
C14_Witness ==
    /\ pc = "done"
    /\ Len(attempts) = 2
    /\ ~attempts[1].success
    /\ attempts[2].success
    /\ Len(newly_modified_accounts) = 1

\* ------------------------------------------------------------ claims, consistency
RowDIDs(file) == {DataRows(file)[i].DID : i \in 1..Len(DataRows(file))}

\* C15: after a successful mutation, every DID with a row in added_by_API.csv
\* and no row in removed_users.csv is in accounts_i_follow.
C15_ActiveAreFollowed ==
    last_call.success =>
        (RowDIDs(added_by_API_csv) \ RowDIDs(removed_users_csv)) \subseteq accounts_i_follow

\* C16: a call whose remote calls succeeded and that came to its first
\* ledger operation comes to the second one too, whether the first raised
\* or not.
C16_BothLedgerOperations ==
    last_call.ledger_ops >= 1 => last_call.ledger_ops = 2

\* ------------------------------------------------------------ claims, selection
\* The follow list the prospects fetched so far would give.
ListSoFar ==
    construct_follow_list(prospects, max_follows, accounts_i_follow, my_followers,
                          added_by_API_csv)

\* C17: once the prospects fetched give a follow list of the quota's length
\* (a quota of 1 or more), no further seed's followers are fetched.
C17_NoFetchPastQuota ==
    [][(pc = "fetching" /\ max_follows >= 1 /\ Len(ListSoFar) >= max_follows)
          => seed' = seed]_vars

\* ------------------------------------------------------------ claims, the service
\* C19: after a successful unfollow of an account the service recorded as
\* followed, the service holds no follow record from the operator to it.
C19_UnfollowClearsRemote ==
    (last_call.modification = "unfollow" /\ last_call.success) =>
        remote_follows[last_call.account.DID] = 0

\* C20: no DID is twice in the follow list handed to modify_followers, also
\* when an account follows several seeds.
C20_FollowListDistinct ==
    \A i, j \in 1..Len(new_accounts_to_follow) :
        new_accounts_to_follow[i].DID = new_accounts_to_follow[j].DID => i = j

\* ------------------------------------------------------------ claims, a failed call
\* C21: a call of follow_or_unfollow whose first remote call fails changes
\* neither accounts_i_follow nor my_followers nor any of the three ledgers,
\* creates no follow record, and returns False.
C21_FailedCallChangesNothing ==
    [][(last_call'.remote_calls = 1 /\ last_call'.ledger_ops = 0) =>
          /\ ~last_call'.success
          /\ accounts_i_follow' = accounts_i_follow
          /\ my_followers' = my_followers
          /\ added_by_API_csv' = added_by_API_csv
          /\ accounts_i_follow_csv' = accounts_i_follow_csv
          /\ removed_users_csv' = removed_users_csv
          /\ remote_follows' = remote_follows]_vars

\* A follow of an account not yet followed failed at client.follow, after
\* earlier calls had written rows to added_by_API.csv and removed_users.csv.
C21_Witness ==
    /\ last_call.modification = "follow"
    /\ last_call.remote_calls = 1
    /\ last_call.ledger_ops = 0
    /\ ~last_call.success
    /\ last_call.account.DID \notin accounts_i_follow
    /\ NumDataRows(added_by_API_csv) > 0
    /\ NumDataRows(removed_users_csv) > 0

====
